---------------------------- MODULE Spec2Model ----------------------------
(***************************************************************************)
(* monica-file-processor: the file-processing pipeline of                  *)
(* src/services/monicaService.js (progress tracker, rate limiter, API      *)
(* client, chunk loop, processFile) driven by the /process-files and       *)
(* /cancel-processing routes of src/routes/uploadRoutes.js and polled by   *)
(* the /api/progress route of src/routes/progressRoutes.js.                *)
(*                                                                         *)
(* Node runs one callback to completion before it serves the next event:   *)
(* `running` names the request handler whose synchronous code is executing *)
(* (0: the event loop is idle).  A handler gives up the processor only at  *)
(* a real suspension: fs.readFile, fs.writeFile, axios.post, setTimeout.   *)
(* Time (`now`, Date.now() in ms) advances only while the loop is idle.    *)
(*                                                                         *)
(* File content is the sequence <<1, ..., L>>: character k is its own      *)
(* position, so a gap, an overlap or a reordering of chunks is visible.    *)
(* Not modelled: console/log output, the timestamps of the progress state  *)
(* (startTime, estimatedEndTime, lastUpdated), the duration/timestamp      *)
(* fields of a history entry and the token counts of rateLimits[k].tokens  *)
(* (only their timestamps).                                                *)
(***************************************************************************)
EXTENDS Integers, Sequences, FiniteSets, TLC

(***************************** bounds **************************************)
NumRequests == 2
MaxFiles == 2
MaxTime == 90000
Max429 == 1
HistoryFiles == 15

(************************* program constants *******************************)
Window == 60000
DEFAULT_TOKEN_LIMIT == 100000
DefaultRetryAfter == 60
CharsPerToken == 4
HistoryKeep == 9

Requests == 1..NumRequests
TickMs == Window \div 2
FileNames == {"a.txt", "b.txt"}
RegisteredKey == "gpt-4o"
UnknownKey == "unlisted"
ModelKeys == {RegisteredKey, UnknownKey}
\* models.json is data, not code: the registered model's descriptor is one
\* of these when the registry is loaded.
Descriptors == {[tokenLimit |-> 2, rpm |-> 1], [tokenLimit |-> 3, rpm |-> 2]}
ContentLengths == {0, 4, 5, 9}
\* retry-after header of a 429 response, in seconds; 0 stands for "absent"
RetryAfterHeaders == {0, 30}

VARIABLES
  now,                \* Date.now()
  running,            \* 0, or the request whose synchronous code runs
  processingProgress, \* monicaService.js:7
  rateLimits,         \* monicaService.js:149
  modelData,          \* monicaService.js:133 (registry, loaded once)
  configured,         \* MONICA_API_KEY and MONICA_API_ENDPOINT both set
  chunker,            \* which chunking code processLargeFile runs
  clients,            \* how many /process-files requests may arrive
  batches,            \* the file lists a request may bring in this run
  disk,               \* the failures the file system shows in this run
  horizon,            \* the time up to which the run is followed
  remote,             \* the answers the remote service gives in this run
  sizes,              \* the content lengths the input files have in this run
  asked,              \* the model keys the clients ask for in this run
  req,                \* per request: route locals and the processFile frame
  polled,             \* the body of the /api/progress response of the last step
  audit               \* history variables: what happened in the trailing window

config == <<modelData, configured, chunker, clients, batches, disk, horizon,
            remote, sizes, asked>>

vars == <<now, running, processingProgress, rateLimits, config, req, polled,
          audit>>

(************************** Progress Tracker *******************************)
\* monicaService.js:7-21
ProgressInit(t) ==
  [currentFile |-> "null", currentFileNumber |-> 0, totalFiles |-> 0,
   totalChunks |-> 0, processedChunks |-> 0, status |-> "idle",
   error |-> "null", processingHistory |-> <<>>,
   processedFiles |-> {}, cancelled |-> FALSE]

\* monicaService.js:40-45: Object.assign(processingProgress, {...update, lastUpdated})
updateProgress(p, update, t) ==
  [f \in DOMAIN p |-> IF f \in DOMAIN update THEN update[f] ELSE p[f]]

\* monicaService.js:50-68: every field back to its baseline
resetProgress(p, t) == ProgressInit(t)

\* monicaService.js:74-82
setTotalFiles(p, total, t) ==
  updateProgress(resetProgress(p, t), [totalFiles |-> total], t)

\* a cancel that does not look at the status first
cancelProcessingAnyStatus(p, t) ==
  updateProgress(p, [cancelled |-> TRUE, status |-> "cancelled",
                     error |-> "Processing cancelled by user"], t)

\* monicaService.js:86-95
cancelProcessing(p, t) ==
  IF p.status = "processing"
  THEN updateProgress(p, [cancelled |-> TRUE, status |-> "cancelled",
                          error |-> "Processing cancelled by user"], t)
  ELSE p

Min(a, b) == IF a <= b THEN a ELSE b
Max(a, b) == IF a >= b THEN a ELSE b

\* a file path is a directory and a base name; uploadRoutes.js:218-225
\* (server folder) and 29-32 (multer upload)
Directories == {"uploads", "server"}
FilePaths == [dir : Directories, base : FileNames]
uploadPath(name) == [dir |-> "uploads", base |-> name]

\* monicaService.js:104: path.basename(filePath)
basename(filePath) == filePath.base

\* file tracking that counts every call, seen name or not
trackFileProcessingEveryCall(p, fileName, t) ==
  updateProgress([p EXCEPT !.processedFiles = @ \cup {fileName}],
                 [currentFileNumber |-> Min(p.currentFileNumber + 1, p.totalFiles),
                  currentFile |-> fileName], t)

\* file tracking whose counter is not capped at totalFiles
trackFileProcessingNoCap(p, fileName, t) ==
  IF fileName \notin p.processedFiles
  THEN updateProgress([p EXCEPT !.processedFiles = @ \cup {fileName}],
                      [currentFileNumber |-> p.currentFileNumber + 1,
                       currentFile |-> fileName], t)
  ELSE p

\* monicaService.js:102-125 (fileName is path.basename(filePath))
trackFileProcessing(p, fileName, t) ==
  IF fileName \notin p.processedFiles
  THEN updateProgress([p EXCEPT !.processedFiles = @ \cup {fileName}],
                      [currentFileNumber |-> Min(p.currentFileNumber + 1, p.totalFiles),
                       currentFile |-> fileName], t)
  ELSE p

\* a snapshot that hands out the whole progress state
getProgressWhole(p) == p

\* monicaService.js:27-34: the snapshot handed to /api/progress
getProgress(p) == [f \in DOMAIN p \ {"processedFiles"} |-> p[f]]

\* Array.prototype.slice(-n)
SliceLast(s, n) ==
  IF Len(s) <= n THEN s ELSE SubSeq(s, Len(s) - n + 1, Len(s))

\* a history that is replaced by its newest entry
pushHistoryAlone(p, entry) == <<entry>>

\* a history that keeps the last 10 entries and adds the new one
pushHistoryKeepTen(p, entry) ==
  Append(SliceLast(p.processingHistory, HistoryKeep + 1), entry)

\* monicaService.js:358-367 and 390-400: the history after one more entry
pushHistory(p, entry) == Append(SliceLast(p.processingHistory, HistoryKeep), entry)

(**************************** Model Registry ******************************)
\* monicaService.js:156-166: modelData.models.find(m => m.key === modelKey)
hasModel(md, modelKey) == modelKey \in DOMAIN md

\* monicaService.js:173-183
getModelTokenLimit(md, modelKey) ==
  IF hasModel(md, modelKey) THEN md[modelKey].tokenLimit ELSE DEFAULT_TOKEN_LIMIT

(***************************** Rate Limiter *******************************)
NoWindow == [present |-> FALSE, requests |-> <<>>, tokens |-> <<>>]
EmptyWindow == [present |-> TRUE, requests |-> <<>>, tokens |-> <<>>]

\* monicaService.js:195-200 and 249-254: rateLimits[modelKey] created on first use
ensureWindow(w) == IF w.present THEN w ELSE EmptyWindow

\* a window from which nothing is ever dropped
pruneWindowNone(w, t) == w

\* monicaService.js:202-211: keep the entries with timestamp > now - 60000
pruneWindow(w, t) ==
  LET oneMinuteAgo == t - Window
      recent(ts) == ts > oneMinuteAgo
  IN [w EXCEPT !.requests = SelectSeq(@, recent), !.tokens = SelectSeq(@, recent)]

\* a limiter that lets one request more through before it holds callers back
atRpmLimitAbove(w, rpm) == Len(w.requests) > rpm

\* monicaService.js:214: requests.length >= model.rpm
atRpmLimit(w, rpm) == Len(w.requests) >= rpm

\* monicaService.js:216-217: Math.max(0, oldestRequest + 60000 - now)
waitTime(w, t) == Max(0, w.requests[1] + Window - t)

\* monicaService.js:190-238, one pass of checkRateLimits up to its await or
\* its return: the new rateLimits and the wait (-1: return, no wait)
checkRateLimits(rl, md, modelKey, t) ==
  IF ~hasModel(md, modelKey) THEN [rl |-> rl, wait |-> -1]
  ELSE LET w == pruneWindow(ensureWindow(rl[modelKey]), t)
           rl2 == [rl EXCEPT ![modelKey] = w]
       IN IF atRpmLimit(w, md[modelKey].rpm)
          THEN [rl |-> rl2, wait |-> waitTime(w, t)]
          ELSE [rl |-> rl2, wait |-> -1]

\* monicaService.js:246-267 (modelKey is never empty: callMonicaApi passes
\* model || DEFAULT_MODEL || 'gpt-4o')
trackRequest(rl, modelKey, t) ==
  LET w == ensureWindow(rl[modelKey])
  IN [rl EXCEPT ![modelKey] =
        [w EXCEPT !.requests = Append(@, t), !.tokens = Append(@, t)]]

(******************************* Chunker **********************************)
\* monicaService.js:314: Math.floor(modelTokenLimit * 0.8).  0.8 as a double is
\* a little above 4/5, so the product never rounds below an exact integer.
maxTokensPerChunk(tokenLimit) == (tokenLimit * 8) \div 10

\* a trigger that also sends a file of exactly the budget to the chunk loop
needsChunkingFromBudget(contentLength, tokenLimit) ==
  contentLength >= CharsPerToken * maxTokensPerChunk(tokenLimit)

\* monicaService.js:317 and 325: fileContent.length / 4 > MAX_TOKENS_PER_CHUNK
needsChunking(contentLength, tokenLimit) ==
  contentLength > CharsPerToken * maxTokensPerChunk(tokenLimit)

\* monicaService.js:422
charsPerChunk(maxTokens) == maxTokens * CharsPerToken

\* monicaService.js:425-427: `const chunks = [];` and a placeholder comment;
\* nothing is ever pushed to chunks before the loop
sourceChunks(content, budget) == <<>>

\* The chunker the documentation describes (hard cut every `budget`
\* characters); the repository holds no code for it.
RECURSIVE documentedChunks(_, _)
documentedChunks(content, budget) ==
  IF Len(content) = 0 THEN <<>>
  ELSE IF Len(content) <= budget THEN <<content>>
  ELSE <<SubSeq(content, 1, budget)>>
         \o documentedChunks(SubSeq(content, budget + 1, Len(content)), budget)

\* the chunk list processLargeFile iterates over
splitContent(impl, content, budget) ==
  IF impl = "source" THEN sourceChunks(content, budget)
  ELSE documentedChunks(content, budget)

RECURSIVE Flatten(_)
Flatten(ss) == IF ss = <<>> THEN <<>> ELSE Head(ss) \o Flatten(Tail(ss))

\* monicaService.js:487: responses.join('\n\n Next Chunk \n\n').  The text is
\* a sequence of pieces; undefined joins as the empty string.
Separator == [kind |-> "separator"]
RECURSIVE joinResponses(_)
joinResponses(rs) ==
  IF rs = <<>> THEN <<>>
  ELSE LET piece == IF Head(rs).kind = "undefined" THEN <<>> ELSE <<Head(rs)>>
       IN IF Len(rs) = 1 THEN piece
          ELSE piece \o <<Separator>> \o joinResponses(Tail(rs))

(************************** state and Init ********************************)
\* what the remote service can answer: 2xx with a body that is null, that
\* lacks choices[0].message, whose message lacks content, or that is
\* complete; 429; 400 with "maximum context length"; another status; nothing
Bodies2xx == {"null", "noMessage", "noContent", "complete"}
Failures == {"tokenLimit", "status500", "noResponse"}
Outcomes == Bodies2xx \cup Failures \cup {"status429"}

RECURSIVE SeqsOver(_, _)
\* the sequences of distinct elements of S of length 1..n
SeqsOver(S, n) ==
  IF n = 0 THEN {}
  ELSE {<<x>> : x \in S}
       \cup {Append(q, x) : q \in SeqsOver(S, n - 1), x \in S} 

Distinct(q) == \A a, b \in 1..Len(q) : a # b => q[a] # q[b]
\* uploadRoutes.js:238-257: deduplicated, at least one file
FileLists(n) == {q \in SeqsOver(FileNames, n) : Distinct(q)}

\* fs.readFile and fs.writeFile can reject: no such file, no permission
DiskFailures == {"ENOENT", "EACCES"}

\* one long batch: f1.txt, f2.txt, ... in this order
LongBatch == [k \in 1..HistoryFiles |-> "f" \o ToString(k) \o ".txt"]

NoResult == [kind |-> "none"]

\* the locals of one /process-files request and of the processFile call it awaits
IdleRequest ==
  [pc |-> "none", files |-> <<>>, model |-> RegisteredKey, fi |-> 0,
   results |-> <<>>, content |-> <<>>, chunks |-> <<>>, i |-> 0,
   responses |-> <<>>, inChunk |-> FALSE, rlCaller |-> "api",
   sending |-> <<>>, retries |-> 0, wake |-> 0, err |-> "null",
   ret |-> NoResult, pending |-> <<>>, written |-> <<>>, log |-> <<>>]

\* the locals of processFile, processLargeFile and callMonicaApi before a
\* call and after it has returned
ClearFrame(q) ==
  [q EXCEPT !.content = <<>>, !.chunks = <<>>, !.i = 0, !.responses = <<>>,
            !.inChunk = FALSE, !.rlCaller = "api", !.sending = <<>>,
            !.retries = 0, !.wake = 0, !.err = "null", !.ret = NoResult,
            !.pending = <<>>]

NoAudit == [k \in ModelKeys |-> <<>>]

\* the last step was not a progress poll
NotPolled == [status |-> "none"]

InitCommon ==
  /\ now = 0
  /\ running = 0
  /\ processingProgress = ProgressInit(0)
  /\ rateLimits = [k \in ModelKeys |-> NoWindow]
  /\ req = [r \in Requests |-> IdleRequest]
  /\ polled = NotPolled
  /\ audit = [recorded |-> NoAudit, admitted |-> NoAudit, sent |-> NoAudit]

\* one client; every answer of the remote service, every file size
InitSingle ==
  /\ InitCommon
  /\ modelData \in [{RegisteredKey} -> Descriptors]
  /\ configured \in BOOLEAN
  /\ chunker = "source"
  /\ clients = 1
  /\ batches = FileLists(MaxFiles)
  /\ disk = DiskFailures
  /\ horizon = MaxTime
  /\ remote = Outcomes
  /\ sizes = ContentLengths \ {9}
  /\ asked = ModelKeys

\* NumRequests clients at once, all asking for the registered model with
\* small files the remote service completes
InitConcurrent ==
  /\ InitCommon
  /\ modelData = [k \in {RegisteredKey} |-> [tokenLimit |-> 2, rpm |-> 1]]
  /\ configured = TRUE
  /\ chunker = "source"
  /\ clients = NumRequests
  /\ batches = FileLists(MaxFiles)
  /\ disk = DiskFailures
  /\ horizon = TickMs
  /\ remote = {"complete"}
  /\ sizes = {4}
  /\ asked = {RegisteredKey}

\* the program as it is in src/ (the chunking code of monicaService.js:
\* 425-427)
Init == InitSingle \/ InitConcurrent

\* one client with one long batch of small files for a model without a
\* descriptor; the disk never fails, the remote service completes or
\* answers 500, nobody cancels and no time passes
InitHistory ==
  /\ InitCommon
  /\ modelData \in [{RegisteredKey} -> Descriptors]
  /\ configured = TRUE
  /\ chunker = "source"
  /\ clients = 1
  /\ batches = {LongBatch}
  /\ disk = {}
  /\ horizon = 0
  /\ remote = {"complete", "status500"}
  /\ sizes = {4}
  /\ asked = {UnknownKey}

\* one client, one file; processLargeFile's loop fed by either chunker
InitChunked ==
  /\ InitCommon
  /\ modelData \in [{RegisteredKey} -> Descriptors]
  /\ configured \in BOOLEAN
  /\ chunker \in {"source", "documented"}
  /\ clients = 1
  /\ batches = FileLists(1)
  /\ disk = DiskFailures
  /\ horizon = Window
  /\ remote = Outcomes
  /\ sizes = ContentLengths
  /\ asked = ModelKeys

(****************************** helpers ***********************************)
Me(r) == req[r]
Text(n) == [k \in 1..n |-> k]
LogAdd(r, ev) == Append(req[r].log, ev)
AuditAdd(field, key, t) ==
  [audit EXCEPT ![field][key] = Append(@, t)]
\* log entry: the file's content has been read
ReadEvent(r, len) ==
  [op |-> "read", size |-> len,
   tokenLimit |-> getModelTokenLimit(modelData, req[r].model)]
InFlight(r) ==
  req[r].pc \notin {"none", "loopTop", "processFile", "responded"}

(******************** /process-files (uploadRoutes.js) ********************)
\* uploadRoutes.js:154-280: a request arrives with its files and model;
\* setTotalFiles resets the progress state
ProcessFilesRequest(r) ==
  /\ running = 0
  /\ r <= clients
  /\ req[r].pc = "none"
  /\ \A q \in Requests : q < r => req[q].pc # "none"
  /\ \E fs \in batches, m \in asked :
       req' = [q \in Requests |->
                 IF q = r
                 THEN [IdleRequest EXCEPT !.pc = "loopTop", !.files = fs,
                                          !.model = m, !.fi = 0]
                 ELSE IF InFlight(q)
                 THEN [req[q] EXCEPT !.log = Append(@, [op |-> "reset"])]
                 ELSE req[q]]
  /\ processingProgress' =
       setTotalFiles(processingProgress, Len(req'[r].files), now)
  /\ running' = r
  /\ UNCHANGED <<now, rateLimits, config, audit>>
  /\ polled' = NotPolled

\* a check that reads the status only
cancelSeenInStatus(progress) == progress.status = "cancelled"

\* uploadRoutes.js:285-286
cancelSeen(progress) == progress.cancelled \/ progress.status = "cancelled"

\* uploadRoutes.js:283-289 and 339-365: the loop test, the cancellation check
\* before each file, and the response once the loop is left
BatchLoop(r) ==
  /\ running = r
  /\ req[r].pc = "loopTop"
  /\ IF req[r].fi < Len(req[r].files)
        /\ ~cancelSeen(getProgress(processingProgress))
     THEN /\ req' = [req EXCEPT ![r].pc = "processFile"]
          /\ running' = r
     ELSE /\ req' = [req EXCEPT ![r].pc = "responded", ![r].log = <<>>]
          /\ running' = 0
  /\ UNCHANGED <<now, processingProgress, rateLimits, config, audit>>
  /\ polled' = NotPolled

(************************ processFile (277-406) ***************************)
\* monicaService.js:277-304: track the file, status processing, then await
\* fs.readFile
ProcessFileStart(r) ==
  /\ running = r
  /\ req[r].pc = "processFile"
  /\ LET fileName == basename(uploadPath(req[r].files[req[r].fi + 1]))
         p1 == trackFileProcessing(processingProgress, fileName, now)
     IN processingProgress' =
          updateProgress(p1, [status |-> "processing", totalChunks |-> 0,
                              processedChunks |-> 0, error |-> "null"], now)
  /\ req' = [req EXCEPT ![r] =
               [ClearFrame(@) EXCEPT !.pc = "readFile", !.log = <<>>]]
  /\ running' = 0
  /\ UNCHANGED <<now, rateLimits, config, audit>>
  /\ polled' = NotPolled

\* monicaService.js:304-336: the read fails, or the content arrives and the
\* chunking trigger picks the path
ReadFileDone(r) ==
  /\ running = 0
  /\ req[r].pc = "readFile"
  /\ running' = r
  /\ \/ /\ "ENOENT" \in disk
        /\ req' = [req EXCEPT ![r].pc = "processFileCatch",
                              ![r].err = "ENOENT"]
        /\ UNCHANGED processingProgress
     \/ \E len \in sizes :
          IF needsChunking(len, getModelTokenLimit(modelData, req[r].model))
          THEN /\ req' = [req EXCEPT ![r].pc = "processLargeFile",
                                     ![r].content = Text(len),
                                     ![r].log = LogAdd(r, ReadEvent(r, len))]
               /\ UNCHANGED processingProgress
          ELSE /\ req' = [req EXCEPT ![r].pc = "callMonicaApi",
                                     ![r].content = Text(len),
                                     ![r].sending = Text(len),
                                     ![r].inChunk = FALSE,
                                     ![r].log = req[r].log \o
                                        <<ReadEvent(r, len),
                                          [op |-> "call", chunk |-> 0,
                                           size |-> len]>>]
               /\ processingProgress' =
                    updateProgress(processingProgress,
                                   [totalChunks |-> 1, processedChunks |-> 0], now)
  /\ UNCHANGED <<now, rateLimits, config, audit>>
  /\ polled' = NotPolled

\* monicaService.js:344-370 and the route's 300-314: the write succeeds
\* (status completed, one history entry, a success result) or fails
WriteFileDone(r) ==
  /\ running = 0
  /\ req[r].pc = "writeFile"
  /\ running' = r
  /\ \/ /\ processingProgress' =
             updateProgress(processingProgress,
               [status |-> "completed", error |-> "null",
                processingHistory |->
                  pushHistory(processingProgress,
                    [file |-> req[r].files[req[r].fi + 1], model |-> req[r].model,
                     success |-> TRUE, error |-> "null"])], now)
        /\ req' = [req EXCEPT ![r] =
                     [ClearFrame(@) EXCEPT
                        !.pc = "loopTop", !.fi = @ + 1,
                        !.results = Append(@, TRUE),
                        !.written = Append(@,
                           [file |-> req[r].files[req[r].fi + 1],
                            text |-> req[r].pending])]]
     \/ /\ "EACCES" \in disk
        /\ req' = [req EXCEPT ![r].pc = "processFileCatch",
                              ![r].err = "EACCES"]
        /\ UNCHANGED processingProgress
  /\ UNCHANGED <<now, rateLimits, config, audit>>
  /\ polled' = NotPolled

\* monicaService.js:371-405 and the route's 315-326: status error, one
\* history entry, the failure rethrown to the route, which counts it and
\* goes on with the loop
ProcessFileCatch(r) ==
  /\ running = r
  /\ req[r].pc = "processFileCatch"
  /\ processingProgress' =
       updateProgress(processingProgress,
         [status |-> "error", error |-> req[r].err,
          processingHistory |->
            pushHistory(processingProgress,
              [file |-> req[r].files[req[r].fi + 1], model |-> req[r].model,
               success |-> FALSE, error |-> req[r].err])], now)
  /\ req' = [req EXCEPT ![r] =
               [ClearFrame(@) EXCEPT !.pc = "loopTop", !.fi = @ + 1,
                                     !.results = Append(@, FALSE)]]
  /\ running' = r
  /\ UNCHANGED <<now, rateLimits, config, audit>>
  /\ polled' = NotPolled

(********************** processLargeFile (416-491) ************************)
\* monicaService.js:416-444: split, totalChunks, empty responses, i = 0
ProcessLargeFile(r) ==
  /\ running = r
  /\ req[r].pc = "processLargeFile"
  /\ LET limit == getModelTokenLimit(modelData, req[r].model)
         chunks == splitContent(chunker, req[r].content,
                                charsPerChunk(maxTokensPerChunk(limit)))
     IN /\ req' = [req EXCEPT ![r] =
                     [@ EXCEPT !.pc = "chunkLoop", !.chunks = chunks,
                               !.responses = <<>>, !.i = 0,
                               !.log = LogAdd(r, [op |-> "split",
                                                  count |-> Len(chunks)])]]
        /\ processingProgress' =
             updateProgress(processingProgress,
               [totalChunks |-> Len(chunks), processedChunks |-> 0], now)
  /\ running' = r
  /\ UNCHANGED <<now, rateLimits, config, audit>>
  /\ polled' = NotPolled

\* monicaService.js:446-455 and 486-490, then processFile's 344: while a
\* chunk is left, the loop body starts with its own checkRateLimits call;
\* after the last chunk the responses are joined and handed to fs.writeFile
ChunkLoop(r) ==
  /\ running = r
  /\ req[r].pc = "chunkLoop"
  /\ IF req[r].i < Len(req[r].chunks)
     THEN /\ req' = [req EXCEPT ![r] =
                       [@ EXCEPT !.pc = "checkRateLimits", !.rlCaller = "loop",
                                 !.inChunk = TRUE,
                                 !.sending = req[r].chunks[req[r].i + 1],
                                 !.log = LogAdd(r, [op |-> "admit", from |-> "loop",
                                                    chunk |-> req[r].i + 1])]]
          /\ running' = r
     ELSE /\ req' = [req EXCEPT ![r] =
                       [@ EXCEPT !.pc = "writeFile", !.inChunk = FALSE,
                                 !.pending = joinResponses(req[r].responses)]]
          /\ running' = 0
  /\ UNCHANGED <<now, processingProgress, rateLimits, config, audit>>
  /\ polled' = NotPolled

\* the chunk a log entry belongs to: 0 on the single-unit path
ChunkNo(r) == IF req[r].inChunk THEN req[r].i + 1 ELSE 0

(************************ checkRateLimits (190-238) ***********************)
\* one pass of checkRateLimits: it returns to its caller (the chunk loop's
\* line 455, which goes on to callMonicaApi, or callMonicaApi's line 520,
\* which goes on to axios.post and suspends), or it suspends in setTimeout
CheckRateLimits(r) ==
  /\ running = r
  /\ req[r].pc = "checkRateLimits"
  /\ LET res == checkRateLimits(rateLimits, modelData, req[r].model, now)
     IN /\ rateLimits' = res.rl
        /\ IF res.wait > 0
           THEN /\ req' = [req EXCEPT ![r].pc = "rateLimitWait",
                                      ![r].wake = now + res.wait,
                                      ![r].log = LogAdd(r, [op |-> "wait",
                                                            chunk |-> ChunkNo(r)])]
                /\ running' = 0
                /\ UNCHANGED audit
           ELSE IF res.wait = 0
           THEN \* line 234 without a wait: the recursive call at once
                /\ UNCHANGED <<req, running, audit>>
           ELSE IF req[r].rlCaller = "loop"
           THEN /\ req' = [req EXCEPT ![r].pc = "callMonicaApi",
                                      ![r].log = LogAdd(r, [op |-> "call",
                                                   chunk |-> ChunkNo(r),
                                                   size |-> Len(req[r].sending)])]
                /\ running' = r
                /\ audit' = AuditAdd("admitted", req[r].model, now)
           ELSE /\ req' = [req EXCEPT ![r] =
                             [@ EXCEPT !.pc = "post",
                                       !.log = LogAdd(r, [op |-> "send",
                                                 chunk |-> ChunkNo(r),
                                                 size |-> Len(req[r].sending)])]]
                /\ running' = 0
                /\ audit' = [AuditAdd("admitted", req[r].model, now)
                               EXCEPT !.sent[req[r].model] = Append(@, now)]
  /\ UNCHANGED <<now, processingProgress, config>>
  /\ polled' = NotPolled

\* monicaService.js:229-234: the timer fires (at its time or later) and
\* checkRateLimits calls itself
RateLimitWake(r) ==
  /\ running = 0
  /\ req[r].pc = "rateLimitWait"
  /\ now >= req[r].wake
  /\ req' = [req EXCEPT ![r].pc = "checkRateLimits", ![r].wake = 0]
  /\ running' = r
  /\ UNCHANGED <<now, processingProgress, rateLimits, config, audit>>
  /\ polled' = NotPolled

(************************ callMonicaApi (499-665) *************************)
\* monicaService.js:499-520: the configuration check, then checkRateLimits
CallMonicaApi(r) ==
  /\ running = r
  /\ req[r].pc = "callMonicaApi"
  /\ IF ~configured
     THEN req' = [req EXCEPT ![r].pc = "apiThrow",
                             ![r].err = "Monica API key or endpoint not configured"]
     ELSE req' = [req EXCEPT ![r] =
                    [@ EXCEPT !.pc = "checkRateLimits", !.rlCaller = "api",
                              !.log = LogAdd(r, [op |-> "admit", from |-> "api",
                                                 chunk |-> ChunkNo(r)])]]
  /\ running' = r
  /\ UNCHANGED <<now, processingProgress, rateLimits, config, audit>>
  /\ polled' = NotPolled

ErrorOf(outcome) ==
  CASE outcome = "null" -> "TypeError: response.data is null"
    [] outcome = "noMessage" -> "Unexpected API response format"
    [] outcome = "tokenLimit" -> "Token limit exceeded"
    [] outcome = "status500" -> "API error: 500"
    [] outcome = "noResponse" -> "No response received from API"

\* monicaService.js:556-561: trackRequest runs once response.data.usage has
\* been read, which throws on a null body
recordsRequest(body) == body # "null"

\* monicaService.js:572-588: the value returned for a 2xx body that passes
\* the structure test (message.content may be missing: undefined)
completionOf(body, sent) ==
  IF body = "complete" THEN [kind |-> "completion", of |-> sent]
  ELSE [kind |-> "undefined"]

\* monicaService.js:572-575
passesStructureTest(body) == body \in {"noContent", "complete"}

\* monicaService.js:545-588: a 2xx response
ApiSuccess(r) ==
  /\ running = 0
  /\ req[r].pc = "post"
  /\ \E body \in Bodies2xx \cap remote :
       LET resp == [op |-> "response", status |-> "200", body |-> body,
                    chunk |-> ChunkNo(r)]
           rec == [op |-> "record", chunk |-> ChunkNo(r)]
       IN /\ IF recordsRequest(body)
             THEN /\ rateLimits' = trackRequest(rateLimits, req[r].model, now)
                  /\ audit' = AuditAdd("recorded", req[r].model, now)
             ELSE UNCHANGED <<rateLimits, audit>>
          /\ req' = [req EXCEPT ![r] =
               [@ EXCEPT
                  !.log = IF recordsRequest(body)
                          THEN req[r].log \o <<resp, rec>>
                          ELSE req[r].log \o <<resp>>,
                  !.pc = IF recordsRequest(body) /\ passesStructureTest(body)
                         THEN "apiReturn" ELSE "apiThrow",
                  !.ret = IF recordsRequest(body) /\ passesStructureTest(body)
                          THEN completionOf(body, req[r].sending) ELSE NoResult,
                  !.err = IF recordsRequest(body) /\ passesStructureTest(body)
                          THEN req[r].err ELSE ErrorOf(body)]]
  /\ running' = r
  /\ UNCHANGED <<now, processingProgress, config>>
  /\ polled' = NotPolled

\* a client that sends the request once more after an error that is not a 429
ApiFailureRetried(r) ==
  /\ running = 0
  /\ req[r].pc = "post"
  /\ \E f \in Failures \cap remote :
       req' = [req EXCEPT ![r] =
                 [@ EXCEPT !.pc = IF req[r].retries < Max429
                                  THEN "callMonicaApi" ELSE "apiThrow",
                           !.retries = Min(@ + 1, Max429),
                           !.err = ErrorOf(f),
                           !.log = LogAdd(r, [op |-> "response", status |-> f,
                                              body |-> "none",
                                              chunk |-> ChunkNo(r)])]]
  /\ running' = r
  /\ UNCHANGED <<now, processingProgress, rateLimits, config, audit>>
  /\ polled' = NotPolled

\* monicaService.js:589-617 and 633-663: an error that is not a 429 is
\* thrown to the caller
ApiFailure(r) ==
  /\ running = 0
  /\ req[r].pc = "post"
  /\ \E f \in Failures \cap remote :
       req' = [req EXCEPT ![r] =
                 [@ EXCEPT !.pc = "apiThrow", !.err = ErrorOf(f),
                           !.log = LogAdd(r, [op |-> "response", status |-> f,
                                              body |-> "none",
                                              chunk |-> ChunkNo(r)])]]
  /\ running' = r
  /\ UNCHANGED <<now, processingProgress, rateLimits, config, audit>>
  /\ polled' = NotPolled

\* a retry that takes the header as it is, absent or not
retryAfterNoDefault(header) == header

\* monicaService.js:620: headers['retry-after'] || 60, in seconds
retryAfter(header) == IF header = 0 THEN DefaultRetryAfter ELSE header

\* monicaService.js:619-631: HTTP 429, wait retry-after seconds
ApiRateLimited(r) ==
  /\ running = 0
  /\ req[r].pc = "post"
  /\ req[r].retries < Max429
  /\ "status429" \in remote
  /\ \E h \in RetryAfterHeaders :
       req' = [req EXCEPT ![r] =
                 [@ EXCEPT !.pc = "retryWait", !.retries = @ + 1,
                           !.wake = now + retryAfter(h) * 1000,
                           !.log = LogAdd(r, [op |-> "response", status |-> "429",
                                              body |-> "none", header |-> h,
                                              chunk |-> ChunkNo(r)])]]
  /\ UNCHANGED <<now, running, processingProgress, rateLimits, config, audit>>
  /\ polled' = NotPolled

\* monicaService.js:631-632: the timer fires and callMonicaApi calls itself
RetryWake(r) ==
  /\ running = 0
  /\ req[r].pc = "retryWait"
  /\ now >= req[r].wake
  /\ req' = [req EXCEPT ![r].pc = "callMonicaApi", ![r].wake = 0]
  /\ running' = r
  /\ UNCHANGED <<now, processingProgress, rateLimits, config, audit>>
  /\ polled' = NotPolled

(************** the callers' continuations after callMonicaApi ************)
\* monicaService.js:477
errorMarker(message) == [kind |-> "error", message |-> message]

\* monicaService.js:458-467 and 469-482: the chunk's response is pushed; the
\* log line 459 reads chunkResponse.length, which throws on undefined and
\* lands in the catch block, which pushes a marker too
chunkReturned(responses, ret) ==
  IF ret.kind = "undefined"
  THEN responses \o <<ret, errorMarker("TypeError: reading 'length'")>>
  ELSE Append(responses, ret)

\* monicaService.js:469-482: the catch block of the chunk loop
chunkFailed(responses, message) == Append(responses, errorMarker(message))

\* monicaService.js:457-467 (chunk loop) and 336-344 (single unit):
\* callMonicaApi returned a value
ApiReturn(r) ==
  /\ running = r
  /\ req[r].pc = "apiReturn"
  /\ IF req[r].inChunk
     THEN /\ req' = [req EXCEPT ![r] =
                       [@ EXCEPT !.pc = "chunkLoop", !.i = @ + 1,
                                 !.responses = chunkReturned(@, req[r].ret)]]
          /\ processingProgress' =
               updateProgress(processingProgress,
                              [processedChunks |-> req[r].i + 1], now)
          /\ running' = r
     ELSE /\ processingProgress' =
               updateProgress(processingProgress, [processedChunks |-> 1], now)
          /\ IF req[r].ret.kind = "undefined"
             THEN \* fs.writeFile(outputPath, undefined) rejects
                  /\ req' = [req EXCEPT ![r].pc = "processFileCatch",
                                        ![r].err = "ERR_INVALID_ARG_TYPE"]
                  /\ running' = r
             ELSE /\ req' = [req EXCEPT ![r].pc = "writeFile",
                                        ![r].pending = <<req[r].ret>>]
                  /\ running' = 0
  /\ UNCHANGED <<now, rateLimits, config, audit>>
  /\ polled' = NotPolled

\* monicaService.js:469-483 (chunk loop: marker, processedChunks, next
\* chunk) and 371 (single unit: processFile's catch): callMonicaApi threw
ApiThrow(r) ==
  /\ running = r
  /\ req[r].pc = "apiThrow"
  /\ IF req[r].inChunk
     THEN /\ req' = [req EXCEPT ![r] =
                       [@ EXCEPT !.pc = "chunkLoop", !.i = @ + 1,
                                 !.responses = chunkFailed(@, req[r].err)]]
          /\ processingProgress' =
               updateProgress(processingProgress,
                              [processedChunks |-> req[r].i + 1], now)
     ELSE /\ req' = [req EXCEPT ![r].pc = "processFileCatch"]
          /\ UNCHANGED processingProgress
  /\ running' = r
  /\ UNCHANGED <<now, rateLimits, config, audit>>
  /\ polled' = NotPolled

(***************************** environment ********************************)
\* the entries of a trailing-window history that are still inside the
\* window (t - 60000, t]
Trailing(q, t) == SelectSeq(q, LAMBDA ts : ts > t - Window)

\* time passes while no callback runs
Tick ==
  /\ running = 0
  /\ now + TickMs <= horizon
  /\ now' = now + TickMs
  /\ audit' = [f \in DOMAIN audit |->
                 [k \in ModelKeys |-> Trailing(audit[f][k], now')]]
  /\ UNCHANGED <<running, processingProgress, rateLimits, config, req>>
  /\ polled' = NotPolled

\* a timer is pending: a handler sleeps in setTimeout and its time has not
\* come
TimerPending ==
  \E r \in Requests :
    req[r].pc \in {"rateLimitWait", "retryWait"} /\ now < req[r].wake

\* time passes beyond the horizon for as long as a timer is pending
TimerTick ==
  /\ running = 0
  /\ now + TickMs > horizon
  /\ TimerPending
  /\ now' = now + TickMs
  /\ audit' = [f \in DOMAIN audit |->
                 [k \in ModelKeys |-> Trailing(audit[f][k], now')]]
  /\ UNCHANGED <<running, processingProgress, rateLimits, config, req>>
  /\ polled' = NotPolled

\* uploadRoutes.js:510-516: POST /cancel-processing
CancelRequest ==
  /\ running = 0
  /\ processingProgress' = cancelProcessing(processingProgress, now)
  /\ req' = [r \in Requests |->
               IF processingProgress.status = "processing" /\ InFlight(r)
               THEN [req[r] EXCEPT !.log = Append(@, [op |-> "cancel",
                                                      chunk |-> ChunkNo(r)])]
               ELSE req[r]]
  /\ UNCHANGED <<now, running, rateLimits, config, audit>>
  /\ polled' = NotPolled

\* progressRoutes.js:7-14: GET /api/progress answers with getProgress()
ProgressRequest ==
  /\ running = 0
  /\ polled' = getProgress(processingProgress)
  /\ UNCHANGED <<now, running, processingProgress, rateLimits, config, req,
                 audit>>

Next ==
  \/ \E r \in Requests :
       \/ ProcessFilesRequest(r)
       \/ BatchLoop(r)
       \/ ProcessFileStart(r)
       \/ ReadFileDone(r)
       \/ ProcessLargeFile(r)
       \/ ChunkLoop(r)
       \/ CheckRateLimits(r)
       \/ RateLimitWake(r)
       \/ CallMonicaApi(r)
       \/ ApiSuccess(r)
       \/ ApiFailure(r)
       \/ ApiRateLimited(r)
       \/ RetryWake(r)
       \/ ApiReturn(r)
       \/ ApiThrow(r)
       \/ WriteFileDone(r)
       \/ ProcessFileCatch(r)
  \/ Tick
  \/ CancelRequest
  \/ ProgressRequest

Spec == Init /\ [][Next]_vars

SpecConcurrent == InitConcurrent /\ [][Next]_vars

SpecChunked == InitChunked /\ [][Next]_vars

\* the steps of a batch in which no chunking, no rate-limit wait, no 429,
\* no cancel and no passage of time occur
NextHistory ==
  \E r \in Requests :
    \/ ProcessFilesRequest(r)
    \/ BatchLoop(r)
    \/ ProcessFileStart(r)
    \/ ReadFileDone(r)
    \/ CallMonicaApi(r)
    \/ CheckRateLimits(r)
    \/ ApiSuccess(r)
    \/ ApiFailure(r)
    \/ ApiReturn(r)
    \/ ApiThrow(r)
    \/ WriteFileDone(r)
    \/ ProcessFileCatch(r)

SpecHistory == InitHistory /\ [][NextHistory]_vars

\* one client, one batch for the registered model, every request completed;
\* the disk does not fail; polls and cancels may arrive at any time
InitLive ==
  /\ InitCommon
  /\ modelData \in [{RegisteredKey} -> Descriptors]
  /\ configured = TRUE
  /\ chunker = "source"
  /\ clients = 1
  /\ batches = FileLists(MaxFiles)
  /\ disk = {}
  /\ horizon = MaxTime
  /\ remote = {"complete"}
  /\ sizes = {4}
  /\ asked = {RegisteredKey}

NextLive ==
  \/ \E r \in Requests :
       \/ ProcessFilesRequest(r)
       \/ BatchLoop(r)
       \/ ProcessFileStart(r)
       \/ ReadFileDone(r)
       \/ CallMonicaApi(r)
       \/ CheckRateLimits(r)
       \/ RateLimitWake(r)
       \/ ApiSuccess(r)
       \/ ApiReturn(r)
       \/ WriteFileDone(r)
  \/ Tick
  \/ TimerTick
  \/ CancelRequest
  \/ ProgressRequest

\* the event loop runs a callback that is ready, a timer whose time has come
\* fires, and time does not stop
SpecLive ==
  /\ InitLive /\ [][NextLive]_vars
  /\ WF_vars(Tick) /\ WF_vars(TimerTick)
  /\ \A r \in Requests :
       WF_vars(CheckRateLimits(r)) /\ WF_vars(RateLimitWake(r))

(******************************* claims ***********************************)
\* the requests recorded for model k inside the trailing window (now - 60000, now]
RecordedInWindow(k) == Len(Trailing(audit.recorded[k], now))

\* C1: for a registered model with rpm = R, never more than R requests are
\* recorded with timestamps inside a trailing 60,000 ms window.
C1_AtMostRpmRecorded ==
  \A k \in DOMAIN modelData : RecordedInWindow(k) <= modelData[k].rpm

\* C1 holds while a single client is served: the window fills beyond rpm
\* only when two requests pass checkRateLimits before either is recorded.
C1_SingleClient == clients = 1 => C1_AtMostRpmRecorded

\* the log positions of request r that hold an event of kind op
Events(r, op) == {j \in DOMAIN req[r].log : req[r].log[j].op = op}

\* the calls of checkRateLimits for model k that returned inside the
\* trailing window
AdmittedInWindow(k) == Len(Trailing(audit.admitted[k], now))

AdmitReturns(r) ==
  /\ req[r].pc = "checkRateLimits"
  /\ req'[r].pc \in {"callMonicaApi", "post"}

\* request r's checkRateLimits call suspends in this step
AdmitSuspends(r) ==
  /\ req[r].pc = "checkRateLimits"
  /\ req'[r].pc = "rateLimitWait"

AdmitsFor(r, j) ==
  {i \in Events(r, "admit") :
     i < j /\ \A m \in Events(r, "send") : ~(i < m /\ m < j)}

C3_SingleUnitPath ==
  \A r \in Requests :
    \A j \in Events(r, "send") :
      req[r].log[j].chunk = 0 => Cardinality(AdmitsFor(r, j)) = 1

\* C4, as claimed: trackRequest runs exactly once for each 2xx response and
\* never for an attempt that received a 429 (or any other answer): in the
\* log every 2xx response is followed at once by one record, and a record
\* follows nothing else.
C4_OneRecordPer2xx ==
  \A r \in Requests :
    LET log == req[r].log
    IN /\ \A j \in Events(r, "response") :
            log[j].status = "200" =>
              /\ j < Len(log) /\ log[j + 1].op = "record"
              /\ j + 2 <= Len(log) => log[j + 2].op # "record"
       /\ \A j \in Events(r, "record") :
            j > 1 /\ log[j - 1].op = "response" /\ log[j - 1].status = "200"

\* what C4 comes to for the 2xx responses whose body is not the JSON null
C4_ExceptNullBody ==
  \A r \in Requests :
    LET log == req[r].log
    IN /\ \A j \in Events(r, "response") :
            log[j].status = "200" /\ log[j].body # "null" =>
              /\ j < Len(log) /\ log[j + 1].op = "record"
              /\ j + 2 <= Len(log) => log[j + 2].op # "record"
       /\ \A j \in Events(r, "record") :
            j > 1 /\ log[j - 1].op = "response" /\ log[j - 1].status = "200"

\* request r is past the API calls of the file it is processing
CallsDone(r) ==
  req[r].pc \in {"writeFile", "loopTop", "processFile", "processFileCatch"}

\* floor(T * 0.8) * 4, the per-chunk budget in characters
BudgetChars(T) == ((T * 8) \div 10) * 4

JustSplit(r) == req[r].pc = "chunkLoop" /\ req[r].i = 0

\* C6, as claimed: the chunk sequence produced inside processLargeFile is a
\* total, ordered partition of the content: the chunks concatenated in order
\* are the content, with no gap and no overlap.
C6_ChunksPartitionContent ==
  \A r \in Requests :
    JustSplit(r) => Flatten(req[r].chunks) = req[r].content

\* C7, as claimed: whenever the chunking trigger fires the chunk list has at
\* least 2 chunks and totalChunks of the progress state is that count.
C7_TriggerGivesTwoChunks ==
  \A r \in Requests :
    JustSplit(r) =>
      /\ Len(req[r].chunks) >= 2
      /\ processingProgress.totalChunks = Len(req[r].chunks)

\* request r has left the chunk loop and is writing the joined output
WritingChunked(r) ==
  req[r].pc = "writeFile" /\ Events(r, "split") # {}

\* pieces joined: result 1, separator, result 2, ..., result n
JoinedOnePerChunk(text, rs) ==
  /\ Len(text) = IF rs = <<>> THEN 0 ELSE 2 * Len(rs) - 1
  /\ \A k \in DOMAIN text :
       text[k] = IF k % 2 = 1 THEN rs[(k + 1) \div 2] ELSE Separator

C8_ExceptContentless ==
  \A r \in Requests :
    (\A e \in Events(r, "response") : req[r].log[e].body # "noContent")
      => (WritingChunked(r) =>
            /\ Len(req[r].responses) = Len(req[r].chunks)
            /\ \A i \in DOMAIN req[r].responses :
                 LET res == req[r].responses[i]
                 IN /\ res.kind \in {"completion", "error"}
                    /\ res.kind = "completion" => res.of = req[r].chunks[i]
            /\ JoinedOnePerChunk(req[r].pending, req[r].responses))

\* the answers with which callMonicaApi throws
IsFailure(ev) ==
  \/ ev.status \in Failures
  \/ ev.status = "200" /\ ev.body \in {"null", "noMessage"}

\* the message callMonicaApi throws for the answer ev
FailureMessage(ev) ==
  IF ev.status = "200" THEN ErrorOf(ev.body) ELSE ErrorOf(ev.status)

C9_ExceptContentless ==
  \A r \in Requests :
    (\A e \in Events(r, "response") : req[r].log[e].body # "noContent")
      => (Events(r, "split") # {} =>
            /\ req[r].pc = "processFileCatch" => req[r].err = "EACCES"
            /\ req[r].pc = "writeFile" =>
                 /\ {req[r].log[c].chunk : c \in Events(r, "call")}
                      = 1..Len(req[r].chunks)
                 /\ processingProgress.processedChunks = Len(req[r].chunks)
                 /\ req[r].pending = joinResponses(req[r].responses)
                 /\ \A e \in Events(r, "response") :
                      IsFailure(req[r].log[e]) =>
                        /\ req[r].log[e].chunk <= Len(req[r].responses)
                        /\ req[r].responses[req[r].log[e].chunk]
                             = errorMarker(FailureMessage(req[r].log[e])))

C10_InFlightResultKept ==
  \A r \in Requests :
    WritingChunked(r) =>
      \A i \in Events(r, "cancel"), j \in Events(r, "response") :
        (i < j /\ req[r].log[j].chunk = req[r].log[i].chunk
           /\ req[r].log[j].body = "complete")
          => \E k \in DOMAIN req[r].pending :
               req[r].pending[k] =
                 [kind |-> "completion",
                  of |-> req[r].chunks[req[r].log[i].chunk]]

\* C11: cancel() called while status is not processing leaves the whole
\* progress state unchanged; called while status is processing it sets
\* cancelled = true, status = cancelled and a non-null error message, and
\* nothing else.
C11_CancelFrame ==
  [][CancelRequest =>
       IF processingProgress.status = "processing"
       THEN /\ processingProgress'.cancelled = TRUE
            /\ processingProgress'.status = "cancelled"
            /\ processingProgress'.error # "null"
            /\ \A f \in DOMAIN processingProgress \ {"cancelled", "status", "error"} :
                 processingProgress'[f] = processingProgress[f]
       ELSE processingProgress' = processingProgress]_vars

\* C11 witness: cancel() has taken effect on a file in flight, and the state
\* it left is one on which a further cancel() is a no-op
C11_CancelTookEffect ==
  /\ processingProgress.cancelled
  /\ processingProgress.status = "cancelled"
  /\ processingProgress.error = "Processing cancelled by user"
  /\ \E r \in Requests : InFlight(r) /\ Events(r, "cancel") # {}

\* cancel() has taken effect while request r's current file was in flight,
\* and the progress state has not been reset since
CancelledSinceReset(r) ==
  \E i \in Events(r, "cancel") : \A j \in Events(r, "reset") : j < i

\* C12: within one batch (no reset in between), once cancel() has taken
\* effect the loop starts no further file's processFile; the cancel itself
\* changes nothing of the file in flight, which runs to its end and leaves
\* its result.
C12_NoFileAfterCancel ==
  [][/\ \A r \in Requests :
          (req[r].pc = "loopTop" /\ req'[r].pc = "processFile")
            => ~CancelledSinceReset(r)
     /\ CancelRequest =>
          \A r \in Requests : [req'[r] EXCEPT !.log = req[r].log] = req[r]
     /\ \A r \in Requests :
          (CancelledSinceReset(r) /\ req'[r].pc = "loopTop")
            => Len(req'[r].results) = req'[r].fi]_vars

\* C12 witness: the file in flight at the cancel has finished with a result
\* and the loop is about to be left with a file still unprocessed
C12_CancelledBeforeNextFile ==
  \E r \in Requests :
    /\ req[r].pc = "loopTop"
    /\ CancelledSinceReset(r)
    /\ req[r].results = <<TRUE>>
    /\ req[r].fi < Len(req[r].files)

\* a /process-files request arrives in this step: setTotalFiles resets the
\* progress state
ResetStep == \E r \in Requests : req[r].pc = "none" /\ req'[r].pc = "loopTop"

\* C13: within one batch (between two setTotalFiles resets) currentFileNumber
\* never decreases, and it never exceeds totalFiles.
C13_FileNumberMonotoneCapped ==
  [][/\ ~ResetStep => processingProgress'.currentFileNumber
                        >= processingProgress.currentFileNumber
     /\ processingProgress'.currentFileNumber
          <= processingProgress'.totalFiles]_vars

\* C13 witness: the last file of a batch of two is being processed
C13_LastFileTracked ==
  /\ processingProgress.totalFiles = 2
  /\ processingProgress.currentFileNumber = 2
  /\ \E r \in Requests : InFlight(r) /\ req[r].fi = 1

\* a processFile invocation begins in this step (its first lines set
\* totalChunks and processedChunks to 0)
ProcessFileBegins == \E r \in Requests : req[r].pc = "processFile" /\ req'[r].pc = "readFile"

\* processedChunks does not decrease in a step inside an invocation, and
\* stays within totalChunks
ChunkCounterStep ==
  /\ ~ProcessFileBegins /\ ~ResetStep
       => processingProgress'.processedChunks >= processingProgress.processedChunks
  /\ processingProgress'.processedChunks <= processingProgress'.totalChunks

\* C14, as claimed: within one processFile invocation processedChunks never
\* decreases and processedChunks <= totalChunks holds in every reachable
\* progress state, on both paths.
C14_ProcessedWithinTotal == [][ChunkCounterStep]_vars

\* what C14 comes to while one client is served at a time
C14_SingleClient == [][clients = 1 => ChunkCounterStep]_vars

\* C15: trackFile is idempotent per base name within a batch: from any
\* reachable progress state, a call with a name already seen changes no
\* field and returns the current number, so two calls with the same base
\* name raise currentFileNumber once (by one, capped at totalFiles).
C15_TrackFileIdempotent ==
  \A a, b \in FilePaths :
    basename(a) = basename(b) =>
      LET p0 == processingProgress
          p1 == trackFileProcessing(p0, basename(a), now)
          p2 == trackFileProcessing(p1, basename(b), now)
      IN /\ p2 = p1
         /\ basename(a) \in p0.processedFiles => p1 = p0
         /\ basename(a) \notin p0.processedFiles =>
              /\ p1.currentFileNumber
                   = Min(p0.currentFileNumber + 1, p0.totalFiles)
              /\ p1.processedFiles = p0.processedFiles \cup {basename(a)}
         /\ p2.currentFileNumber <= p0.currentFileNumber + 1

\* C15 witness: a file has been tracked in a batch that has room for one
\* more, so a second call with its name could have counted again
C15_SeenNameWithRoom ==
  /\ processingProgress.processedFiles # {}
  /\ processingProgress.currentFileNumber < processingProgress.totalFiles
  /\ \E r \in Requests : req[r].pc = "readFile"

\* the most entries processingHistory may hold
HistoryLimit == HistoryKeep + 1

\* C16: processingHistory never holds more than 10 entries; after n
\* processFile invocations in a batch it holds the min(n, 10) most recent
\* entries in chronological order (entry k is the outcome of file
\* n - min(n, 10) + k of the batch).
C16_HistoryLastTen ==
  /\ Len(processingProgress.processingHistory) <= HistoryLimit
  /\ \A r \in Requests :
       req[r].pc \in {"loopTop", "responded"} =>
         LET h == processingProgress.processingHistory
             n == Len(req[r].results)
             kept == Min(n, HistoryLimit)
         IN /\ Len(h) = kept
            /\ \A k \in 1..kept :
                 /\ h[k].file = req[r].files[n - kept + k]
                 /\ h[k].success = req[r].results[n - kept + k]

\* C16 witness: more than 10 files of the batch have been processed and the
\* first entries have been discarded
C16_OldestDiscarded ==
  \E r \in Requests :
    /\ req[r].pc = "responded"
    /\ Len(req[r].results) = HistoryFiles
    /\ Len(processingProgress.processingHistory) = HistoryLimit
    /\ processingProgress.processingHistory[1].file
         = req[r].files[HistoryFiles - HistoryKeep]

\* request r's processFile invocation ends in this step: it returns or
\* throws to the route's loop
InvocationEnds(r) ==
  req[r].pc \in {"writeFile", "processFileCatch"} /\ req'[r].pc = "loopTop"

\* C17: every processFile invocation appends exactly one history entry, as
\* it ends: on a normal return status is completed and the entry has
\* success = true; when an error escapes, status is error, the message is
\* recorded in the progress state and in the entry, the entry has
\* success = false and the route's loop receives the failure.  Nothing else
\* but a reset changes the history.
C17_OneHistoryEntry ==
  [][/\ \A r \in Requests :
          InvocationEnds(r) =>
            LET h == processingProgress.processingHistory
                h2 == processingProgress'.processingHistory
                e == h2[Len(h2)]
            IN /\ h2 = Append(SliceLast(h, HistoryLimit - 1), e)
               /\ e.file = req[r].files[req[r].fi + 1]
               /\ IF req[r].pc = "writeFile"
                  THEN /\ processingProgress'.status = "completed"
                       /\ e.success
                       /\ req'[r].results = Append(req[r].results, TRUE)
                  ELSE /\ processingProgress'.status = "error"
                       /\ processingProgress'.error = req[r].err
                       /\ req[r].err # "null"
                       /\ ~e.success /\ e.error = req[r].err
                       /\ req'[r].results = Append(req[r].results, FALSE)
     /\ processingProgress'.processingHistory
          # processingProgress.processingHistory
          => ResetStep \/ \E r \in Requests : InvocationEnds(r)]_vars

\* C17 witness: a batch whose first file completed and whose second file
\* failed has left both entries
C17_BothEntriesAppended ==
  \E r \in Requests :
    /\ req[r].pc = "loopTop"
    /\ req[r].results = <<TRUE, FALSE>>
    /\ Len(processingProgress.processingHistory) = 2
    /\ processingProgress.processingHistory[1].success
    /\ ~processingProgress.processingHistory[2].success
    /\ processingProgress.status = "error"

\* cancel() took effect while a chunk of request r's file was in flight and
\* a later chunk was still to come
CancelledMidFile(r) ==
  \E i \in Events(r, "cancel") :
    /\ req[r].log[i].chunk >= 1
    /\ req[r].log[i].chunk < Len(req[r].chunks)

C19_ConfigErrorSurfaced ==
  ~configured =>
    /\ processingProgress.status # "completed"
    /\ \A r \in Requests :
         /\ Events(r, "send") = {}
         /\ \A k \in DOMAIN req[r].results : ~req[r].results[k]

\* what C19 comes to for a file within the budget (single-unit path): the
\* configuration error ends the invocation as a failure, nothing is sent
C19_SingleUnitPath ==
  [][\A r \in Requests :
       (~configured /\ InvocationEnds(r) /\ Events(r, "read") # {}
          /\ Events(r, "split") = {})
         => /\ Events(r, "send") = {}
            /\ processingProgress'.status = "error"
            /\ processingProgress'.error
                 = "Monica API key or endpoint not configured"
            /\ req'[r].results = Append(req[r].results, FALSE)]_vars

\* what request r did, without the cancels and resets that came from outside
OwnLog(r) ==
  SelectSeq(req[r].log, LAMBDA ev : ev.op \notin {"cancel", "reset"})

\* the last outbound request in log F before position j
LastSendBefore(F, j) ==
  F[CHOOSE m \in 1..(j - 1) :
      F[m].op = "send" /\ \A n \in (m + 1)..(j - 1) : F[n].op # "send"]

\* C20, the steps: a 429 answer suspends the call for the retry-after
\* seconds of the answer, 60 when the header is absent, whatever the number
\* of 429 answers before it; the call resumes no earlier, by calling
\* callMonicaApi again.
C20_RetryWaitStep(r) ==
  /\ (req[r].pc = "post" /\ req'[r].pc = "retryWait") =>
       LET ev == req'[r].log[Len(req'[r].log)]
       IN /\ ev.op = "response" /\ ev.status = "429"
          /\ req'[r].wake
               = now + 1000 * (IF ev.header = 0 THEN 60 ELSE ev.header)
  /\ (req[r].pc = "retryWait" /\ req'[r].pc # "retryWait") =>
       /\ now >= req[r].wake
       /\ req'[r].pc = "callMonicaApi"
       /\ req'[r].sending = req[r].sending
  /\ (req[r].pc = "post" /\ "status429" \in remote
        /\ req[r].retries < Max429) => ENABLED ApiRateLimited(r)

\* C20, the trace: after a 429 answer the next thing the call does is admit
\* (from callMonicaApi), and the request it sends next is the one it sent
\* before; a call that returns after 429 answers returns the completion of
\* what was sent, with no error.
C20_RetryTrace(r) ==
  LET F == OwnLog(r)
  IN /\ \A j \in DOMAIN F :
          (F[j].op = "response" /\ F[j].status = "429") =>
            /\ j < Len(F) => /\ F[j + 1].op = "admit"
                             /\ F[j + 1].from = "api"
                             /\ F[j + 1].chunk = F[j].chunk
            /\ \A m \in (j + 1)..Len(F) :
                 (F[m].op = "send" /\ \A n \in (j + 1)..(m - 1) : F[n].op # "send")
                   => /\ F[m].size = LastSendBefore(F, j).size
                      /\ F[m].chunk = LastSendBefore(F, j).chunk
     /\ (req[r].pc = "apiReturn" /\ req[r].retries > 0) =>
          /\ req[r].err = "null"
          /\ req[r].ret.kind = "completion" => req[r].ret.of = req[r].sending

SendsUpTo(r, c, j) ==
  {m \in Events(r, "send") : m < j /\ req[r].log[m].chunk = c}

\* the 429 answers of r's log for chunk c up to position j
Answers429UpTo(r, c, j) ==
  {m \in Events(r, "response") :
     m < j /\ req[r].log[m].chunk = c /\ req[r].log[m].status = "429"}

\* the answer r's outbound request receives in this step, when it is a
\* token-limit error, another status that is neither 2xx nor 429, or nothing
FailureAnswered(r) ==
  /\ req[r].pc = "post"
  /\ Len(req'[r].log) = Len(req[r].log) + 1
  /\ req'[r].log[Len(req'[r].log)].op = "response"
  /\ req'[r].log[Len(req'[r].log)].status \in Failures

\* in r's log a failure answer is the last thing that happens to its call:
\* no request for the same chunk follows it, and before it the call was sent
\* once, plus once per 429 answer
NoSendAfterFailure(r) ==
  \A j \in Events(r, "response") :
    LET ev == req[r].log[j]
    IN ev.status \in Failures =>
         /\ \A m \in Events(r, "send") : m > j => req[r].log[m].chunk # ev.chunk
         /\ Cardinality(SendsUpTo(r, ev.chunk, j))
              = 1 + Cardinality(Answers429UpTo(r, ev.chunk, j))

\* C21: a token-limit error (HTTP 400 mentioning maximum context length),
\* any other non-2xx non-429 response and a request without a response each
\* make callMonicaApi throw after the one outbound attempt they answer: the
\* request is not sent again.
C21_FailureNotRetried ==
  [][\A r \in Requests :
       /\ FailureAnswered(r) =>
            /\ req'[r].pc = "apiThrow"
            /\ req'[r].err = ErrorOf(req'[r].log[Len(req'[r].log)].status)
            /\ rateLimits' = rateLimits
       /\ NoSendAfterFailure(r)']_vars

\* C21 witness: each of the three failures has ended a file after a single
\* outbound request
C21_FailedAfterOneAttempt ==
  \E r \in Requests :
    /\ req[r].pc = "processFileCatch"
    /\ Cardinality(Events(r, "send")) = 1
    /\ \E j \in Events(r, "response") : req[r].log[j].status = "noResponse"
    /\ \E e \in DOMAIN processingProgress.processingHistory :
         processingProgress.processingHistory[e].error = ErrorOf("tokenLimit")

\* the last answer in r's log
LastAnswer(r) ==
  req[r].log[CHOOSE j \in Events(r, "response") :
               \A m \in Events(r, "response") : m <= j]

\* C22, as claimed: callMonicaApi returns the completion text of
\* choices[0].message.content for a 2xx response, and for every 2xx response
\* without that structure (no choices, no first choice, no message, no
\* content) it throws instead of returning a value.
C22_CompletionOrFailure ==
  \A r \in Requests :
    /\ req[r].pc = "apiReturn" =>
         req[r].ret = [kind |-> "completion", of |-> req[r].sending]
    /\ (req[r].pc \in {"apiReturn", "apiThrow"} /\ Events(r, "response") # {}
          /\ LastAnswer(r).status = "200") =>
         (req[r].pc = "apiReturn" <=> LastAnswer(r).body = "complete")

\* what C22 comes to for the 2xx answers other than a message without
\* content: a complete body returns its completion, a null body and a body
\* without choices[0].message throw
C22_ExceptContentless ==
  \A r \in Requests :
    (req[r].pc \in {"apiReturn", "apiThrow"} /\ Events(r, "response") # {}
       /\ LastAnswer(r).status = "200" /\ LastAnswer(r).body # "noContent") =>
      IF LastAnswer(r).body = "complete"
      THEN /\ req[r].pc = "apiReturn"
           /\ req[r].ret = [kind |-> "completion", of |-> req[r].sending]
      ELSE /\ req[r].pc = "apiThrow"
           /\ req[r].err = ErrorOf(LastAnswer(r).body)

\* the remote service answered one of r's requests for the current file
\* with the token-limit error
TokenLimitAnswered(r) ==
  \E j \in Events(r, "response") : req[r].log[j].status = "tokenLimit"

\* what the route must see when processFile throws for the token limit: the
\* file counted as failed with that message, and the loop at its next file
TokenLimitSurfaced(r) ==
  /\ req[r].pc \in {"writeFile", "processFileCatch"} /\ req'[r].pc = "loopTop"
       => /\ req[r].pc = "processFileCatch"
          /\ req[r].err = ErrorOf("tokenLimit")
          /\ req'[r].results = Append(req[r].results, FALSE)
          /\ req'[r].fi = req[r].fi + 1
          /\ processingProgress'.status = "error"
          /\ processingProgress'.error = ErrorOf("tokenLimit")
  /\ req[r].pc = "loopTop" /\ req'[r].pc # "loopTop"
       => (req'[r].pc = "processFile"
             <=> /\ req[r].fi < Len(req[r].files)
                 /\ ~cancelSeen(getProgress(processingProgress)))

C23_SingleUnitPath ==
  [][\A r \in Requests :
       (TokenLimitAnswered(r) /\ Events(r, "split") = {})
         => TokenLimitSurfaced(r)]_vars

\* the model keys without a descriptor in the registry
UnknownKeys == {k \in ModelKeys : ~hasModel(modelData, k)}

\* C24, as claimed: rate-limiter operations on a model key that is not in
\* the registry are no-ops: checkRateLimits returns without suspending, and
\* trackRequest leaves the rate-limit state as it is (no window is created
\* and no timestamp is stored for the key).
C24_UnknownKeyNoOp ==
  /\ \A r \in Requests :
       req[r].model \in UnknownKeys => req[r].pc # "rateLimitWait"
  /\ \A k \in UnknownKeys : rateLimits[k] = NoWindow

\* what C24 comes to for checkRateLimits alone: called for an unknown key it
\* returns to its caller in the same step and leaves rateLimits unchanged
C24_AdmitNoOp ==
  [][\A r \in Requests :
       (req[r].pc = "checkRateLimits" /\ req[r].model \in UnknownKeys
          /\ req'[r] # req[r])
         => /\ AdmitReturns(r)
            /\ rateLimits' = rateLimits]_vars

\* the handlers that are suspended: in a timer, in a disk or network call
Suspended(r) ==
  req[r].pc \in {"readFile", "writeFile", "post", "rateLimitWait", "retryWait"}

C25_PolledDuringRateLimitWait ==
  /\ polled # NotPolled
  /\ \E r \in Requests : req[r].pc = "rateLimitWait"

\* the /process-files requests whose batch has started and has not been
\* answered yet
ActiveBatches == {r \in Requests : req[r].pc \notin {"none", "responded"}}

\* C26, as claimed: the progress state and the rate windows are mutated by a
\* single sequential worker: at no time are two processFile invocations, or
\* two batches, active together.
C26_SingleWorker ==
  /\ Cardinality(ActiveBatches) <= 1
  /\ Cardinality({r \in Requests : InFlight(r)}) <= 1

\* what C26 comes to while a single client sends its requests one after the
\* other
C26_SingleClient == clients = 1 => C26_SingleWorker

\* request r's rate-limit timer fires in this step
AdmitWakes(r) ==
  /\ req[r].pc = "rateLimitWait"
  /\ req'[r].pc # "rateLimitWait"

\* C27: for a registered model with rpm >= 1 every call of checkRateLimits
\* eventually returns as time advances: with the window full it waits
\* max(0, oldest + 60000 - now) and runs the whole check again, and after
\* that wait the oldest timestamp is pruned, so that a slot is free (a
\* single worker records nothing meanwhile).
C27_AdmitEventuallyReturns ==
  /\ [][\A r \in Requests :
          LET k == req[r].model
          IN /\ AdmitSuspends(r) =>
                  /\ Len(rateLimits'[k].requests) >= modelData[k].rpm
                  /\ req'[r].wake
                       = now + Max(0, rateLimits'[k].requests[1] + Window - now)
             /\ AdmitWakes(r) =>
                  /\ now >= req[r].wake
                  /\ req'[r].pc = "checkRateLimits"
                  /\ LET oldest == req[r].wake - Window
                         w == pruneWindow(rateLimits[k], now)
                     IN /\ \A i \in DOMAIN w.requests : w.requests[i] > oldest
                        /\ Len(w.requests) < modelData[k].rpm]_vars
  /\ \A r \in Requests :
       (req[r].pc \in {"checkRateLimits", "rateLimitWait"})
         ~> (req[r].pc = "post")

\* C27 witness: a call of checkRateLimits that found the window full has
\* waited and has returned, and the request is on its way
C27_ReturnedAfterWait ==
  \E r \in Requests :
    /\ req[r].pc = "post"
    /\ Events(r, "wait") # {}
    /\ now >= Window

\* the requests sent for model k inside the trailing window
SentInWindow(k) == Len(Trailing(audit.sent[k], now))

\* C28, as claimed: for a registered model with rpm = R the number of
\* outbound API attempts actually sent (successful, failed and 429-answered
\* alike) inside a trailing 60-second window never exceeds R.
C28_AtMostRpmSent ==
  \A k \in DOMAIN modelData : SentInWindow(k) <= modelData[k].rpm

\* what C28 comes to when a single client's requests are all completed:
\* every attempt is recorded, and the window holds the attempts
C28_AllCompleted ==
  (clients = 1 /\ remote = {"complete"}) => C28_AtMostRpmSent

\* the cancellation is in effect
CancelInEffect ==
  processingProgress.cancelled /\ processingProgress.status = "cancelled"

\* C29, as claimed: once cancelProcessing has taken effect, status stays
\* cancelled and cancelled stays true until the next resetProgress or
\* setTotalFiles: the completion or the failure of the file in flight does
\* not overwrite status with completed or error.
C29_CancelledStays ==
  [][(CancelInEffect /\ ~ResetStep) =>
       /\ processingProgress'.cancelled
       /\ processingProgress'.status = "cancelled"]_vars

\* what C29 comes to for the flag alone: cancelled stays true until the next
\* reset
C29_FlagStays ==
  [][(processingProgress.cancelled /\ ~ResetStep) =>
       processingProgress'.cancelled]_vars

\* batch r starts its next file in this step
NextFileStarts(r) == req[r].pc = "loopTop" /\ req'[r].pc = "processFile"

\* C30, as claimed: a cancellation that took effect during batch A is never
\* lost: also when a new /process-files request (setTotalFiles) arrives while
\* A's current file is still in flight, batch A starts no further file after
\* the cancel.
C30_CancelNeverLost ==
  [][\A r \in Requests : Events(r, "cancel") # {} => ~NextFileStarts(r)]_vars

\* what C30 comes to while a single client is served
C30_SingleClient ==
  [][\A r \in Requests :
       (clients = 1 /\ Events(r, "cancel") # {}) => ~NextFileStarts(r)]_vars

=============================================================================
